---- MODULE Spec2Model ----
(***************************************************************************)
(* A model of dorothy's shared helpers (src/dorothy/core.py) and of the    *)
(* command modules built on them (modify_zone, get_user, get_apps).        *)
(*                                                                         *)
(* Python values are modelled as follows.                                  *)
(*   - a str is a sequence of one-character strings;                       *)
(*   - an option value is a record [kind, s, l]: None, a str (s) or a list *)
(*     of str (l);                                                         *)
(*   - a dict that the code iterates (an option store) is the sequence of  *)
(*     its entries in insertion order.                                     *)
(***************************************************************************)
EXTENDS Integers, Sequences, FiniteSets, TLC

\* ------------------------------------------------------------------ bounds

\* Longest string a user types as an option value.
MaxStrLen == 1

\* Most pages a list endpoint serves in one walk, and most items on a page.
MaxPages == 3
MaxPageSize == 2

\* Most execute commands in one session of a module's shell.
MaxExecutes == 2

\* Longest string given to one set_module_options call taken on its own.
MaxArgLen == 3

\* ----------------------------------------------------------------- strings

\* The characters option values are built from: a plain character, the
\* whitespace str.strip() removes, and the separator of group_ids.
Chars == {"a", " ", ","}

Strings == UNION {[1..n -> Chars] : n \in 0..MaxStrLen}

IsSpace(c) == c = " "

RECURSIVE lstrip(_)
lstrip(s) == IF s # <<>> /\ IsSpace(Head(s)) THEN lstrip(Tail(s)) ELSE s

RECURSIVE rstrip(_)
rstrip(s) ==
    IF s # <<>> /\ IsSpace(s[Len(s)]) THEN rstrip(SubSeq(s, 1, Len(s) - 1)) ELSE s

\* str.strip(): leading and trailing whitespace removed.
strip(s) == rstrip(lstrip(s))

\* str.split(","): the segments between commas, in order; "" gives [""].
RECURSIVE splitFrom(_, _)
splitFrom(cur, rest) ==
    IF rest = <<>> THEN <<cur>>
    ELSE IF Head(rest) = "," THEN <<cur>> \o splitFrom(<<>>, Tail(rest))
    ELSE splitFrom(Append(cur, Head(rest)), Tail(rest))

\* A split that leaves out the empty segments.
splitSkipEmpty(s) == SelectSeq(splitFrom(<<>>, s), LAMBDA seg : seg # <<>>)

split(s) == splitFrom(<<>>, s)

\* ------------------------------------------------------------ option values

None == [kind |-> "none", s |-> <<>>, l |-> <<>>]
Str(x) == [kind |-> "str", s |-> x, l |-> <<>>]
List(x) == [kind |-> "list", s |-> <<>>, l |-> x]

\* Python truthiness of an option value: None, "" and [] are falsy.
Truthy(v) ==
    \/ v.kind = "str" /\ v.s # <<>>
    \/ v.kind = "list" /\ v.l # <<>>

\* What a user can supply for one option of a set command: nothing (click
\* passes None) or a typed string.
Supplied == {None} \cup {Str(x) : x \in Strings}

\* ------------------------------------------------------------ option store

OptionNames == {"id", "group_ids"}

HelpOf(k) == IF k = "id" THEN "The unique ID" ELSE "The group IDs"

\* k.replace("_", "-"), as the option is shown to the user.
DisplayName(k) == IF k = "group_ids" THEN "group-ids" ELSE k

Option(k, req) == [name |-> k, value |-> None, required |-> req, help |-> HelpOf(k)]

\* The option tables a module can declare: distinct names in declaration
\* order, each required or not, every value None at module load.
Layouts ==
    {<<>>}
    \cup {<<Option(k, r)>> : k \in OptionNames, r \in BOOLEAN}
    \cup UNION {{<<Option(k1, r1), Option(k2, r2)>> :
                    k2 \in OptionNames \ {k1}, r1 \in BOOLEAN, r2 \in BOOLEAN} :
                 k1 \in OptionNames}

Keys(store) == {store[i].name : i \in DOMAIN store}

\* set_module_options without its group_ids branch.
SetValueNoSplit(k, v, old) ==
    IF Truthy(v) THEN Str(strip(v.s)) ELSE old

\* A set that keeps the previous value when the supplied one strips to "".
SetValueKeepsOnBlank(k, v, old) ==
    IF Truthy(v) /\ strip(v.s) # <<>>
    THEN IF k = "group_ids" THEN List(split(strip(v.s))) ELSE Str(strip(v.s))
    ELSE old

\* The value set_module_options leaves in option k when v is supplied.
SetValue(k, v, old) ==
    IF k = "group_ids" /\ Truthy(v) THEN List(split(strip(v.s)))
    ELSE IF Truthy(v) THEN Str(strip(v.s))
    ELSE old

set_module_options(module_options, new_options) ==
    [i \in DOMAIN module_options |->
        IF module_options[i].name \in DOMAIN new_options
        THEN [module_options[i] EXCEPT
                !.value = SetValue(module_options[i].name,
                                   new_options[module_options[i].name],
                                   module_options[i].value)]
        ELSE module_options[i]]

\* A reset that clears the required options only.
ResetRequiredOnly(module_options) ==
    [i \in DOMAIN module_options |->
        IF module_options[i].required
        THEN [module_options[i] EXCEPT !.value = None]
        ELSE module_options[i]]

reset_module_options(module_options) ==
    [i \in DOMAIN module_options |-> [module_options[i] EXCEPT !.value = None]]

\* The return value of check_module_options and the option its message
\* names.  The loop returns from its first iteration on either branch; an
\* empty store falls off the loop and returns None.
CheckResult(err, k) == [error |-> err, named |-> k]

CheckAt(module_options, i) ==
    IF i > Len(module_options) THEN CheckResult("None", "")
    ELSE IF module_options[i].required = TRUE /\ ~Truthy(module_options[i].value)
         THEN CheckResult("True", module_options[i].name)
         ELSE CheckResult("False", "")

check_module_options(module_options) == CheckAt(module_options, 1)

\* --------------------------------------------------------------- HTTP values

\* Status codes the tenant answers with: both ends of 2xx, two 3xx codes
\* that requests hands back without following, and two client errors.
StatusCodes == {200, 299, 304, 399, 400, 404}

\* response.reason, the phrase the server sends with the status line.
Reason(status) ==
    CASE status = 200 -> "OK"
      [] status = 304 -> "Not Modified"
      [] status = 400 -> "Bad Request"
      [] status = 404 -> "Not Found"
      [] OTHER -> "Unassigned"

\* A dict is a function from its keys; dict.get(k) of a missing key is None.
EmptyDict == [k \in {} |-> ""]

Get(d, k) == IF k \in DOMAIN d THEN d[k] ELSE "None"

\* A response body: a JSON object, a JSON array of items, or text that is
\* not JSON (an empty body, an HTML error page).
JsonObject(d) == [kind |-> "object", fields |-> d, items |-> <<>>]
JsonArray(xs) == [kind |-> "array", fields |-> EmptyDict, items |-> xs]
NotJson == [kind |-> "invalid", fields |-> EmptyDict, items |-> <<>>]
NoBody == [kind |-> "", fields |-> EmptyDict, items |-> <<>>]

UserObject == JsonObject([k \in {"id", "profile"} |-> IF k = "id" THEN "u1" ELSE "login"])
NamedObject == JsonObject([k \in {"id", "name"} |-> IF k = "id" THEN "o1" ELSE "Name A"])
IdObject == JsonObject([k \in {"id"} |-> "u1"])
ErrorEnvelope(code, summary) ==
    JsonObject([k \in {"errorCode", "errorSummary"} |->
                    IF k = "errorCode" THEN code ELSE summary])

ObjectBodies ==
    {UserObject, NamedObject, IdObject, JsonObject(EmptyDict),
     ErrorEnvelope("E1", "not found"), ErrorEnvelope("E2", "forbidden")}

NoLink == [base |-> "None", path |-> "None", id |-> <<>>, after |-> 0]

\* What session.get / session.put gives back: a response, or an exception
\* raised by the transport (timeout, connection refused).
HttpResponse(status, body, next) ==
    [exc |-> FALSE, status |-> status, reason |-> Reason(status),
     body |-> body, next |-> next]

TransportError ==
    [exc |-> TRUE, status |-> 0, reason |-> "", body |-> NoBody, next |-> NoLink]

Is200(r) == r.status = 200

\* response.ok that is true of every response.
OkAlways(r) == TRUE

\* response.ok of the requests library: no 4xx or 5xx status.
Ok(r) == r.status < 400

\* A URL under the base URL: a path, the id the code formats into it (<<>>
\* when it has none) and, on the pages after the first, the cursor of the
\* "next" link (0 on a URL the client built itself).
Url(path, id, after) == [base |-> "base_url", path |-> path, id |-> id, after |-> after]

\* A URL on another host, as a "next" link can name one.
ElsewhereUrl(path, after) == [Url(path, <<>>, after) EXCEPT !.base = "elsewhere"]

\* timeout=7 of every session call.
Timeout == 7

\* headers["Authorization"] of every session call.
Authorization == "SSWS api_token"

\* A request with its JSON payload (an empty dict on a GET).
Request(method, u) ==
    [method |-> method, url |-> u, json |-> EmptyDict,
     authorization |-> Authorization, timeout |-> Timeout]

Put(u, payload) == [Request("PUT", u) EXCEPT !.json = payload]

\* ------------------------------------------------------- messages and returns

\* One message as the helpers report it (LOGGER, index_event and console).
Message(level, what) ==
    [level |-> level, what |-> what, status |-> 0, reason |-> "",
     errorCode |-> "", errorSummary |-> ""]

\* "Error retrieving ... Response Code | Response Reason | Error Code |
\* Error Summary", built from the response.
HttpError(r) ==
    [level |-> "ERROR", what |-> "http_error", status |-> r.status,
     reason |-> r.reason,
     errorCode |-> Get(r.body.fields, "errorCode"),
     errorSummary |-> Get(r.body.fields, "errorSummary")]

\* The except branch reporting the transport exception as an HTTP error.
UrlOrTokenErrorAsHttpError == Message("ERROR", "http_error")

\* click.secho of URL_OR_API_TOKEN_ERROR in the except branch
UrlOrTokenError == Message("ERROR", "url_or_api_token")

\* How a call ends: a returned object, a returned flag, a returned list,
\* None, or an exception that leaves the function.
NotReturned == [kind |-> "", body |-> NoBody, flag |-> "", exc |-> "", items |-> <<>>]
ReturnObject(b) == [NotReturned EXCEPT !.kind = "object", !.body = b]
ReturnFlag(f) == [NotReturned EXCEPT !.kind = "flag", !.flag = f]
ReturnList(xs) == [NotReturned EXCEPT !.kind = "list", !.items = xs]
ReturnNone == [NotReturned EXCEPT !.kind = "None"]
Raised(e) == [NotReturned EXCEPT !.kind = "raised", !.exc = e]

Outcome(r, m) == [ret |-> r, msgs |-> m]

\* ------------------------------------------------------------- fetch helpers

FetchHelpers ==
    {"get_zone_object", "get_app_object", "get_policy_object", "get_policy_rule",
     "get_current_user", "get_user_object"}

UserHelpers == {"get_current_user", "get_user_object"}

\* The URL a fetch helper builds for the object with this id.
FetchUrl(h, id) ==
    CASE h = "get_zone_object" -> Url("/zones/{zone_id}", id, 0)
      [] h = "get_app_object" -> Url("/apps/{app_id}", id, 0)
      [] h = "get_policy_object" -> Url("/policies/{policy_id}", id, 0)
      [] h = "get_policy_rule" -> Url("/policies/{policy_id}/rules/{rule_id}", id, 0)
      [] h = "get_current_user" -> Url("/users/me", <<>>, 0)
      [] OTHER -> Url("/users/{user_id}", id, 0)

\* The "Attempting to get ..." message comes first in the helpers that have one.
AttemptMsgs(h) ==
    IF h \in UserHelpers THEN <<>> ELSE <<Message("INFO", "attempt")>>

\* response.json().get(...) of the error message: what it raises, if anything.
ErrorBodyRaises(r) ==
    CASE r.body.kind = "invalid" -> "ValueError"
      [] r.body.kind = "array" -> "AttributeError"
      [] OTHER -> ""

\* The branch taken when response.ok is false.
FailurePath(h, r) ==
    IF ErrorBodyRaises(r) # ""
    THEN Outcome(Raised(ErrorBodyRaises(r)), AttemptMsgs(h))
    ELSE CASE h = "get_user_object" ->
                Outcome(ReturnFlag("True"),
                        <<HttpError(r), Message("ECHO", "expected_if_deleted")>>)
           [] h = "get_policy_object" ->
                Outcome(ReturnNone,
                        AttemptMsgs(h) \o <<HttpError(r), Message("NOTE", "rule_limit")>>)
           [] OTHER -> Outcome(ReturnNone, AttemptMsgs(h) \o <<HttpError(r)>>)

\* The branch taken when response.ok is true.
SuccessPath(h, r) ==
    CASE h \in UserHelpers ->
            \* user = response.json(); print_user_info(user)
            IF r.body.kind = "invalid" THEN Outcome(Raised("ValueError"), <<>>)
            ELSE IF r.body.kind = "array" THEN Outcome(Raised("AttributeError"), <<>>)
            ELSE IF "profile" \notin DOMAIN r.body.fields
                 THEN Outcome(Raised("KeyError"), <<>>)
            ELSE Outcome(IF h = "get_user_object" THEN ReturnFlag("False")
                                                  ELSE ReturnObject(r.body),
                         <<Message("ECHO", "user_info")>>)
      [] h = "get_policy_object" ->
            \* policy = response.json(); msg uses policy["name"]
            IF r.body.kind = "invalid" THEN Outcome(Raised("ValueError"), AttemptMsgs(h))
            ELSE IF r.body.kind = "array" THEN Outcome(Raised("TypeError"), AttemptMsgs(h))
            ELSE IF "name" \notin DOMAIN r.body.fields
                 THEN Outcome(Raised("KeyError"), AttemptMsgs(h))
            ELSE Outcome(ReturnObject(r.body),
                         AttemptMsgs(h) \o <<Message("INFO", "retrieved")>>)
      [] OTHER ->
            \* msg "Retrieved ..."; zone = response.json(); print_zone_object(zone)
            IF r.body.kind = "invalid"
            THEN Outcome(Raised("ValueError"),
                         AttemptMsgs(h) \o <<Message("INFO", "retrieved")>>)
            ELSE IF r.body.kind = "array"
            THEN Outcome(Raised("AttributeError"),
                         AttemptMsgs(h) \o <<Message("INFO", "retrieved")>>)
            ELSE Outcome(ReturnObject(r.body),
                         AttemptMsgs(h) \o <<Message("INFO", "retrieved"),
                                             Message("ECHO", "object_info")>>)

\* One fetch helper, from its first line to its return, given what the
\* session call gave back.  After a transport exception response is None
\* and the test of response.ok raises AttributeError.
FetchOutcome(h, r) ==
    IF r.exc
    THEN Outcome(Raised("AttributeError"), AttemptMsgs(h) \o <<UrlOrTokenError>>)
    ELSE IF Ok(r) THEN SuccessPath(h, r)
    ELSE FailurePath(h, r)

\* -------------------------------------------------------------------- state

VARIABLES
    MODULE_OPTIONS,  \* the option store of the module in use
    cmd,             \* the last option-store operation: its name, the options
                     \* supplied to it, and (for check) the operation it follows
    error,           \* what the last check_module_options returned
    pc,              \* where the running helper or command stands
    helper,          \* the helper or module command that runs
    requests,        \* the HTTP requests it has issued, in order
    responses,       \* what each of them gave back, in order
    msgs,            \* the messages it has reported, in order
    ret,             \* how it ended
    url,             \* a walker's url: where its next GET goes
    harvested,       \* a walker's list of harvested items
    sleeps,          \* the time.sleep(1) pauses taken
    saved,           \* a walker's prompts and the file it wrote
    zone,            \* the network zone as the tenant holds it
    local,           \* execute's local variables: zone, original_name, new_name
    executes,        \* the execute commands run in this session
    es,              \* ctx.obj.es: the Elasticsearch client, or None
    indexed,         \* the es.index calls of the running call, in order
    warned           \* the indexing warnings it has shown

optVars == <<MODULE_OPTIONS, cmd, error>>
httpVars == <<pc, helper, requests, responses, msgs, ret>>
walkVars == <<url, harvested, sleeps, saved>>
walkVarsButSleeps == <<url, harvested, saved>>
modVars == <<zone, local, executes>>
sinkVars == <<es, indexed, warned>>
vars ==
    <<MODULE_OPTIONS, cmd, error, pc, helper, requests, responses, msgs, ret,
      url, harvested, sleeps, saved, zone, local, executes, es, indexed, warned>>

\* The zone the tenant holds when the session starts.
ZoneId == <<"a">>

InitialZone ==
    [k \in {"id", "name", "type", "gateways", "proxies"} |->
        CASE k = "id" -> ZoneId
          [] k = "name" -> "Zone A"
          [] k = "type" -> "IP"
          [] k = "gateways" -> "gw"
          [] OTHER -> "px"]

NoLocal == [zone |-> EmptyDict, original_name |-> "", new_name |-> ""]

NothingSaved == [prompted |-> FALSE, printed |-> FALSE, written |-> FALSE, content |-> <<>>]

HttpIdle ==
    /\ pc = "idle"
    /\ helper = ""
    /\ requests = <<>>
    /\ responses = <<>>
    /\ msgs = <<>>
    /\ ret = NotReturned
    /\ url = NoLink
    /\ harvested = <<>>
    /\ sleeps = 0
    /\ saved = NothingSaved
    /\ zone = InitialZone
    /\ local = NoLocal
    /\ executes = 0
    /\ es = "None"
    /\ indexed = <<>>
    /\ warned = 0

NoKwargs == <<>>
NoCheck == CheckResult("", "")

\* ------------------------------------- the option store under its operations

OptInit ==
    /\ MODULE_OPTIONS \in Layouts
    /\ cmd = [name |-> "load", kwargs |-> NoKwargs, after |-> ""]
    /\ error = NoCheck
    /\ HttpIdle

OptSet(new_options) ==
    /\ MODULE_OPTIONS' = set_module_options(MODULE_OPTIONS, new_options)
    /\ cmd' = [name |-> "set", kwargs |-> new_options, after |-> ""]
    /\ error' = NoCheck

OptReset ==
    /\ MODULE_OPTIONS' = reset_module_options(MODULE_OPTIONS)
    /\ cmd' = [name |-> "reset", kwargs |-> NoKwargs, after |-> ""]
    /\ error' = NoCheck

OptCheck ==
    /\ error' = check_module_options(MODULE_OPTIONS)
    /\ cmd' = [name |-> "check", kwargs |-> cmd.kwargs, after |-> cmd.name]
    /\ UNCHANGED MODULE_OPTIONS

OptNext ==
    \/ \E new_options \in [Keys(MODULE_OPTIONS) -> Supplied] : OptSet(new_options)
    \/ OptReset
    \/ OptCheck

SpecOptions == OptInit /\ [][OptNext /\ UNCHANGED <<httpVars, walkVars, modVars, sinkVars>>]_vars

\* ------------------------------------------- set_module_options on one option

\* The strings a set command can be given for one option.
ArgStrings == UNION {[1..n -> Chars] : n \in 0..MaxArgLen}

SetValueInit ==
    /\ MODULE_OPTIONS \in {<<Option(k, r)>> : k \in OptionNames, r \in BOOLEAN}
    /\ cmd = [name |-> "load", kwargs |-> NoKwargs, after |-> ""]
    /\ error = NoCheck
    /\ HttpIdle

SetValueNext ==
    \E k \in Keys(MODULE_OPTIONS), v \in ArgStrings :
        OptSet([x \in {k} |-> Str(v)]) /\ UNCHANGED <<httpVars, walkVars, modVars, sinkVars>>

SpecSetValue == SetValueInit /\ [][SetValueNext]_vars

\* ------------------------------------------------- one call of a fetch helper

\* What the tenant can answer to the GET of a single object.
FetchResponses ==
    {TransportError}
    \cup {HttpResponse(st, b, NoLink) :
            st \in StatusCodes, b \in ObjectBodies \cup {JsonArray(<<>>), NotJson}}

\* MODULE_OPTIONS of modify_zone and of get_user at module load.
ModuleOptionsAtLoad == <<Option("id", TRUE)>>

FetchInit ==
    /\ MODULE_OPTIONS = ModuleOptionsAtLoad
    /\ cmd = [name |-> "load", kwargs |-> NoKwargs, after |-> ""]
    /\ error = NoCheck
    /\ HttpIdle

Fetch(h, r) ==
    /\ pc \in {"idle", "done"}
    /\ helper' = h
    /\ requests' = <<Request("GET", FetchUrl(h, <<"a">>))>>
    /\ responses' = <<r>>
    /\ msgs' = FetchOutcome(h, r).msgs
    /\ ret' = FetchOutcome(h, r).ret
    /\ pc' = "done"
    /\ UNCHANGED <<optVars, walkVars, modVars, sinkVars>>

FetchNext == \E h \in FetchHelpers, r \in FetchResponses : Fetch(h, r)

SpecFetch == FetchInit /\ [][FetchNext]_vars

\* --------------------------------------------------------- pagination walker

Walkers == {"list_users", "list_groups", "list_zones", "list_apps"}

ListPath(w) ==
    CASE w = "list_users" -> "/users"
      [] w = "list_groups" -> "/groups"
      [] w = "list_zones" -> "/zones"
      [] OTHER -> "/apps"

\* The statuses a list endpoint answers with in a walk.
WalkStatusCodes == {200, 304, 404}

\* The items of the page at URL u when it holds n of them, in server order.
PageItems(u, n) == [i \in 1..n |-> [page |-> u.after, idx |-> i]]

\* The "next" links the tenant can still hand out: cursors it has not
\* served in this walk (the chain of links is finite and never turns back).
FreshLinks(w, asked) ==
    {Url(ListPath(w), <<>>, c) : c \in 1..(MaxPages - 1)} \ {asked[i].url : i \in DOMAIN asked}

\* What the tenant can answer to the GET of the page at u: a success status
\* with an array of items, or with a body that is not JSON, and maybe a
\* "next" link; an error status with an error body; or no answer at all.
WalkResponses(w, u, asked) ==
    {TransportError}
    \cup {HttpResponse(st, b, nx) :
            st \in {c \in WalkStatusCodes : c < 400},
            b \in {JsonArray(PageItems(u, n)) : n \in 0..MaxPageSize} \cup {NotJson},
            nx \in {NoLink} \cup (FreshLinks(w, asked) \ {u})}
    \cup {HttpResponse(st, b, NoLink) :
            st \in {c \in WalkStatusCodes : c >= 400},
            b \in {ErrorEnvelope("E1", "not found"), JsonObject(EmptyDict),
                   JsonArray(<<>>), NotJson}}

WalkInit ==
    /\ MODULE_OPTIONS = ModuleOptionsAtLoad
    /\ cmd = [name |-> "load", kwargs |-> NoKwargs, after |-> ""]
    /\ error = NoCheck
    /\ HttpIdle

\* The walker is called: url is the list endpoint, nothing is harvested.
WalkCall(w) ==
    /\ pc \in {"idle", "done"}
    /\ helper' = w
    /\ url' = Url(ListPath(w), <<>>, 0)
    /\ harvested' = <<>>
    /\ requests' = <<>>
    /\ responses' = <<>>
    /\ msgs' = <<>>
    /\ ret' = NotReturned
    /\ sleeps' = 0
    /\ saved' = NothingSaved
    /\ pc' = "page"
    /\ UNCHANGED <<optVars, modVars, sinkVars>>

\* The url a walker that never follows the link asks next.
NextUrlStuck(u, r) == u

\* url = links["next"]["url"]
NextUrl(u, r) == r.next

\* harvested.extend(page) written as an overwrite.
ExtendOverwrite(list, page) == page

\* harvested.extend(page)
Extend(list, page) == list \o page

\* The bare return of the error branch handing back the list instead.
ReturnOnErrorPartial(list) == ReturnList(list)

\* The bare return of the error branch: the caller gets None.
ReturnOnError(list) == ReturnNone

\* if harvested_users:
HarvestedSome(list) == list # <<>>

\* A pause taken only when another page follows.
PauseBeforeNextPage(r) == IF r.next # NoLink THEN 1 ELSE 0

\* time.sleep(1) after harvested.extend(...), before the links are looked at.
PauseAfterPage(r) == 1

\* One turn of the while loop: the GET of url and all that follows it, up
\* to the next GET, the prompts or the return.
WalkPage(r) ==
    /\ pc = "page"
    /\ requests' = Append(requests, Request("GET", url))
    /\ responses' = Append(responses, r)
    /\ IF r.exc
       THEN \* response = None; response.ok raises
            /\ msgs' = Append(msgs, UrlOrTokenError)
            /\ ret' = Raised("AttributeError")
            /\ pc' = "done"
            /\ UNCHANGED <<url, harvested, sleeps>>
       ELSE IF ~Ok(r)
       THEN IF ErrorBodyRaises(r) # ""
            THEN /\ ret' = Raised(ErrorBodyRaises(r))
                 /\ pc' = "done"
                 /\ UNCHANGED <<msgs, url, harvested, sleeps>>
            ELSE /\ msgs' = Append(msgs, HttpError(r))
                 /\ ret' = ReturnOnError(harvested)
                 /\ pc' = "done"
                 /\ UNCHANGED <<url, harvested, sleeps>>
       ELSE IF r.body.kind = "invalid"
       THEN \* len(response.json()) raises
            /\ ret' = Raised("ValueError")
            /\ pc' = "done"
            /\ UNCHANGED <<msgs, url, harvested, sleeps>>
       ELSE /\ harvested' = Extend(harvested, r.body.items)
            /\ sleeps' = sleeps + PauseAfterPage(r)
            /\ IF r.next # NoLink
               THEN /\ url' = NextUrl(url, r)
                    /\ msgs' = Append(msgs, Message("INFO", "retrieved"))
                    /\ pc' = "page"
                    /\ ret' = ret
               ELSE /\ url' = url
                    /\ IF HarvestedSome(harvested')
                       THEN /\ msgs' = msgs \o <<Message("INFO", "retrieved"),
                                                 Message("ECHO", "no_more"),
                                                 Message("INFO", "total")>>
                            /\ pc' = "prompt"
                            /\ ret' = ret
                       ELSE /\ msgs' = msgs \o <<Message("INFO", "retrieved"),
                                                 Message("ECHO", "no_more")>>
                            /\ pc' = "done"
                            /\ ret' = ReturnList(harvested')
    /\ UNCHANGED <<optVars, modVars, sinkVars, helper, saved>>

\* The two prompts after a walk that harvested something, and the return.
WalkFinish(print, save) ==
    /\ pc = "prompt"
    /\ saved' = [prompted |-> TRUE, printed |-> print, written |-> save,
                 content |-> IF save THEN harvested ELSE <<>>]
    /\ ret' = ReturnList(harvested)
    /\ pc' = "done"
    /\ UNCHANGED <<optVars, modVars, sinkVars, helper, requests, responses, msgs, url, harvested,
                   sleeps>>

WalkNext ==
    \/ \E w \in Walkers : WalkCall(w)
    \/ \E r \in WalkResponses(helper, url, requests) : WalkPage(r)
    \/ \E print \in BOOLEAN, save \in BOOLEAN : WalkFinish(print, save)

SpecWalk == WalkInit /\ [][WalkNext]_vars

\* ------------------------------------------- a walk and the links it is given

\* The URLs a "next" link can name: the list endpoint at a cursor not yet
\* served, on the tenant or on another host.  response.links holds whatever
\* URL the Link header of the answer carries.
LinkTargets(w, asked) ==
    ({Url(ListPath(w), <<>>, c) : c \in 1..(MaxPages - 1)}
        \cup {ElsewhereUrl(ListPath(w), c) : c \in 1..(MaxPages - 1)})
    \ {asked[i].url : i \in DOMAIN asked}

\* What can answer the GET of the page at u: a page of items with or without
\* a "next" link, an error, or nothing.
LinkResponses(w, u, asked) ==
    {TransportError, HttpResponse(404, ErrorEnvelope("E1", "not found"), NoLink)}
    \cup {HttpResponse(200, JsonArray(PageItems(u, n)), nx) :
            n \in 0..1, nx \in {NoLink} \cup (LinkTargets(w, asked) \ {u})}

LinksNext ==
    \/ \E w \in Walkers : WalkCall(w)
    \/ \E r \in LinkResponses(helper, url, requests) : WalkPage(r)
    \/ \E print \in BOOLEAN, save \in BOOLEAN : WalkFinish(print, save)

SpecLinks == WalkInit /\ [][LinksNext]_vars

\* ---------------------------------------------------------------- index_event

\* ctx.obj.es: None when no Elasticsearch sink is configured, else the client.
Sinks == {"None", "Elasticsearch"}

\* datetime.utcnow() at the call.
Timestamps == {1, 2}

EventModules == {"dorothy.core", "dorothy.modules.defense_evasion.modify_zone"}

EventTypes == {"INFO", "ERROR"}

\* What is passed as event: a message, or the exception that was caught.
Events ==
    {[kind |-> "str", text |-> "Attempting to get network zone a"],
     [kind |-> "exception", text |-> "Read timed out"]}

\* hashlib.md5((str(timestamp) + str(event)).encode()).hexdigest()
Md5Hex(timestamp, event) == [md5 |-> <<timestamp, event.text>>]

\* The es.index call of index_event: index, id and body.
EsIndexCall(timestamp, module, event_type, event) ==
    [index |-> "dorothy",
     id |-> Md5Hex(timestamp, event),
     body |-> [timestamp |-> timestamp, module |-> module,
               event_type |-> event_type, event |-> event.text]]

IndexResult(calls, warnings, exc) == [calls |-> calls, warned |-> warnings, raised |-> exc]

\* index_event without its test of es.
index_event_unguarded(sink, timestamp, module, event_type, event, fails) ==
    IF sink = "None" THEN IndexResult(<<>>, 0, "AttributeError")
    ELSE IndexResult(<<EsIndexCall(timestamp, module, event_type, event)>>,
                     IF fails THEN 1 ELSE 0, "")

\* index_event without its try/except.
index_event_uncaught(sink, timestamp, module, event_type, event, fails) ==
    IF sink = "None" THEN IndexResult(<<>>, 0, "")
    ELSE IndexResult(<<EsIndexCall(timestamp, module, event_type, event)>>,
                     0, IF fails THEN "Exception" ELSE "")

\* index_event: with a sink, one es.index call; when that call raises (fails),
\* the exception is caught and a warning is shown.  Without a sink, nothing.
index_event(sink, timestamp, module, event_type, event, fails) ==
    IF sink = "None" THEN IndexResult(<<>>, 0, "")
    ELSE IndexResult(<<EsIndexCall(timestamp, module, event_type, event)>>,
                     IF fails THEN 1 ELSE 0, "")

SinkInit ==
    /\ MODULE_OPTIONS = ModuleOptionsAtLoad
    /\ cmd = [name |-> "load", kwargs |-> NoKwargs, after |-> ""]
    /\ error = NoCheck
    /\ pc = "idle"
    /\ helper = ""
    /\ requests = <<>>
    /\ responses = <<>>
    /\ msgs = <<>>
    /\ ret = NotReturned
    /\ url = NoLink
    /\ harvested = <<>>
    /\ sleeps = 0
    /\ saved = NothingSaved
    /\ zone = InitialZone
    /\ local = NoLocal
    /\ executes = 0
    /\ es \in Sinks
    /\ indexed = <<>>
    /\ warned = 0

\* One call of index_event on its own.
IndexEvent(timestamp, module, event_type, event, fails) ==
    /\ pc \in {"idle", "done"}
    /\ helper' = "index_event"
    /\ cmd' = [name |-> "index_event",
               kwargs |-> [timestamp |-> timestamp, module |-> module,
                           event_type |-> event_type, event |-> event],
               after |-> ""]
    /\ LET out == index_event(es, timestamp, module, event_type, event, fails)
       IN /\ indexed' = out.calls
          /\ warned' = out.warned
          /\ ret' = IF out.raised = "" THEN ReturnNone ELSE Raised(out.raised)
    /\ requests' = <<>>
    /\ responses' = <<>>
    /\ msgs' = <<>>
    /\ pc' = "done"
    /\ UNCHANGED <<MODULE_OPTIONS, error, walkVars, modVars, es>>

\* ------------------------------------------------------- one call of a helper

\* One call of a helper from the shell: a fetch helper, or a walker with its
\* pages.  The locals of a call are gone when the next one starts.
HelperNext ==
    \/ helper \notin Walkers /\ FetchNext
    \/ helper \notin FetchHelpers /\ WalkNext

SpecHelpers == FetchInit /\ [][HelperNext]_vars

\* ------------------------------------------------ modify_zone and get_user

Modules == {"modify_zone", "get_user"}

\* MODULE_OPTIONS["id"]["value"]
OptionValue(module_options, k) ==
    module_options[CHOOSE i \in DOMAIN module_options : module_options[i].name = k].value

\* if zone: a returned object that is not the empty dict.
TruthyObject(r) == r.kind = "object" /\ DOMAIN r.body.fields # {}

ZoneUrl(id) == FetchUrl("get_zone_object", id)

\* What the tenant can answer to GET /zones/{id}.
ZoneGetResponses(id) ==
    {TransportError,
     HttpResponse(404, ErrorEnvelope("E1", "not found"), NoLink),
     HttpResponse(404, NotJson, NoLink)}
    \cup IF id = zone["id"]
         THEN {HttpResponse(200, JsonObject(zone), NoLink),
               HttpResponse(304, JsonObject(zone), NoLink),
               HttpResponse(200, JsonObject([k \in {"id"} |-> zone["id"]]), NoLink),
               HttpResponse(200, JsonObject(EmptyDict), NoLink),
               HttpResponse(200, NotJson, NoLink),
               HttpResponse(404, JsonObject(zone), NoLink)}
         ELSE {}

\* What the tenant can answer to PUT /zones/{id}: the updated zone, an
\* error, or nothing the client gets to see.
ZonePutResponses(name) ==
    {TransportError,
     HttpResponse(200, JsonObject([zone EXCEPT !["name"] = name]), NoLink),
     HttpResponse(400, ErrorEnvelope("E2", "forbidden"), NoLink),
     HttpResponse(400, NotJson, NoLink)}

\* The zone the tenant holds after a PUT: replaced when it answers 200,
\* kept when it answers an error; a request whose answer was lost may have
\* been applied or not.
ZoneAfterPut(r, payload, applied) ==
    IF (~r.exc /\ Is200(r)) \/ (r.exc /\ applied)
    THEN [zone EXCEPT !["name"] = payload["name"], !["type"] = payload["type"],
                      !["gateways"] = payload["gateways"],
                      !["proxies"] = payload["proxies"]]
    ELSE zone

ModInit ==
    /\ MODULE_OPTIONS = ModuleOptionsAtLoad
    /\ cmd = [name |-> "load", kwargs |-> NoKwargs, after |-> ""]
    /\ error = NoCheck
    /\ pc = "idle"
    /\ helper \in Modules
    /\ requests = <<>>
    /\ responses = <<>>
    /\ msgs = <<>>
    /\ ret = NotReturned
    /\ url = NoLink
    /\ harvested = <<>>
    /\ sleeps = 0
    /\ saved = NothingSaved
    /\ zone = InitialZone
    /\ local = NoLocal
    /\ executes = 0
    /\ es = "None"
    /\ indexed = <<>>
    /\ warned = 0

\* A command starts: what the previous one issued and reported is history.
NewCommand(name, kwargs) ==
    /\ pc = "idle"
    /\ cmd' = [name |-> name, kwargs |-> kwargs, after |-> cmd.name]
    /\ requests' = <<>>
    /\ responses' = <<>>
    /\ sleeps' = 0
    /\ local' = NoLocal
    /\ UNCHANGED <<helper, walkVarsButSleeps, zone, sinkVars>>

\* An info that empties the options it prints.
ModInfoClears ==
    /\ NewCommand("info", NoKwargs)
    /\ MODULE_OPTIONS' = reset_module_options(MODULE_OPTIONS)
    /\ msgs' = <<Message("ECHO", "options_table")>>
    /\ ret' = ReturnNone
    /\ UNCHANGED <<error, pc, executes>>

\* info: print_module_info(MODULE_OPTIONS)
ModInfo ==
    /\ NewCommand("info", NoKwargs)
    /\ msgs' = <<Message("ECHO", "options_table")>>
    /\ ret' = ReturnNone
    /\ UNCHANGED <<MODULE_OPTIONS, error, pc, executes>>

\* set --id ...: help when nothing was supplied, set_module_options otherwise
ModSet(kwargs) ==
    /\ NewCommand("set", kwargs)
    /\ IF \A k \in DOMAIN kwargs : kwargs[k] = None
       THEN /\ msgs' = <<Message("ECHO", "help")>>
            /\ UNCHANGED MODULE_OPTIONS
       ELSE /\ msgs' = <<>>
            /\ MODULE_OPTIONS' = set_module_options(MODULE_OPTIONS, kwargs)
    /\ ret' = ReturnNone
    /\ UNCHANGED <<error, pc, executes>>

\* reset
ModReset ==
    /\ NewCommand("reset", NoKwargs)
    /\ MODULE_OPTIONS' = reset_module_options(MODULE_OPTIONS)
    /\ msgs' = <<>>
    /\ ret' = ReturnNone
    /\ UNCHANGED <<error, pc, executes>>

\* execute that runs its requests without looking at check's answer.
ProceedsUnchecked(e) == TRUE

\* if error: return
Proceeds(e) == e.error # "True"

\* execute, up to its first request: check_module_options, and return on a
\* Fault.
ModExecute ==
    /\ executes < MaxExecutes
    /\ NewCommand("execute", NoKwargs)
    /\ executes' = executes + 1
    /\ error' = check_module_options(MODULE_OPTIONS)
    /\ IF ~Proceeds(error')
       THEN /\ msgs' = <<Message("ERROR", "required_value_not_set")>>
            /\ ret' = ReturnNone
            /\ pc' = "idle"
       ELSE /\ msgs' = IF helper = "get_user" THEN <<Message("INFO", "attempt")>> ELSE <<>>
            /\ ret' = NotReturned
            /\ pc' = IF helper = "get_user" THEN "user_object" ELSE "zone_lookup"
    /\ UNCHANGED MODULE_OPTIONS

\* The rest of a step of execute: everything but pc, ret, local, zone, sleeps.
Exchange(req, r, reported) ==
    /\ requests' = Append(requests, req)
    /\ responses' = Append(responses, r)
    /\ msgs' = msgs \o reported
    /\ UNCHANGED <<optVars, helper, walkVarsButSleeps, executes, sinkVars>>

\* execute ends: by a return, or by an exception that leaves it.
Ends(how) == ret' = how /\ pc' = "idle"

\* modify_zone: zone = get_zone_object(ctx, zone_id), and the names.
ZoneLookup(r) ==
    /\ pc = "zone_lookup"
    /\ LET id == OptionValue(MODULE_OPTIONS, "id").s
           out == FetchOutcome("get_zone_object", r)
       IN /\ Exchange(Request("GET", ZoneUrl(id)), r, out.msgs)
          /\ IF out.ret.kind = "raised" THEN Ends(out.ret) /\ UNCHANGED local
             ELSE IF ~TruthyObject(out.ret) THEN Ends(ReturnNone) /\ UNCHANGED local
             ELSE IF "name" \notin DOMAIN out.ret.body.fields
             THEN Ends(Raised("KeyError")) /\ UNCHANGED local
             ELSE /\ local' = [zone |-> out.ret.body.fields,
                               original_name |-> out.ret.body.fields["name"],
                               new_name |-> out.ret.body.fields["name"] \o " TEMP_STRING"]
                  /\ pc' = "rename1"
                  /\ ret' = ret
    /\ UNCHANGED <<zone, sleeps>>

\* A payload that carries the type and the name only.
RenamePayloadNameOnly(z, name) ==
    [k \in {"type", "name", "gateways", "proxies"} |->
        CASE k = "type" -> z["type"]
          [] k = "name" -> name
          [] OTHER -> "None"]

\* The payload of rename_zone: type, gateways and proxies of the zone that
\* was fetched, and the name to set.
RenamePayload(z, name) ==
    [k \in {"type", "name", "gateways", "proxies"} |->
        CASE k = "type" -> z["type"]
          [] k = "name" -> name
          [] OTHER -> Get(z, k)]

\* An execute whose second rename_zone call sets the temporary name again.
RenameToTemporary(step) == local.new_name

\* The name a rename_zone call sets: the temporary one, then the original.
RenameTo(step) == IF step = "rename1" THEN local.new_name ELSE local.original_name

\* An execute that returns after its first rename_zone call.
AfterRenameReturns(step) == "idle"

\* Where execute goes when a rename_zone call returns.
AfterRename(step) == IF step \in {"rename1", "confirm1"} THEN "rename2" ELSE "idle"

Continue(step) ==
    /\ pc' = AfterRename(step)
    /\ ret' = IF AfterRename(step) = "idle" THEN ReturnNone ELSE ret

\* rename_zone from its first line to the answer to its PUT: what it
\* reports, and how it ends unless it goes on to get_zone_object.
RenameOutcome(r) ==
    LET attempt == <<Message("INFO", "attempt_rename")>>
    IN IF r.exc
       THEN Outcome(Raised("AttributeError"), attempt \o <<UrlOrTokenError>>)
       ELSE IF Ok(r)
       THEN Outcome(NotReturned, attempt \o <<Message("INFO", "renamed")>>)
       ELSE IF ErrorBodyRaises(r) # ""
       THEN Outcome(Raised(ErrorBodyRaises(r)), attempt)
       ELSE Outcome(ReturnNone, attempt \o <<HttpError(r)>>)

\* modify_zone: one rename_zone call up to the answer to its PUT.
ZoneRename(r, applied) ==
    /\ pc \in {"rename1", "rename2"}
    /\ LET payload == RenamePayload(local.zone, RenameTo(pc))
           out == RenameOutcome(r)
       IN /\ zone' = ZoneAfterPut(r, payload, applied)
          /\ Exchange(Put(ZoneUrl(local.zone["id"]), payload), r, out.msgs)
          /\ IF out.ret.kind = "raised" THEN Ends(out.ret)
             ELSE IF out.ret = NotReturned
             THEN /\ pc' = IF pc = "rename1" THEN "confirm1" ELSE "confirm2"
                  /\ ret' = ret
             ELSE Continue(pc)
    /\ UNCHANGED <<local, sleeps>>

\* modify_zone: the get_zone_object and the time.sleep(1) that follow a
\* rename that succeeded.
ZoneConfirm(r) ==
    /\ pc \in {"confirm1", "confirm2"}
    /\ LET out == FetchOutcome("get_zone_object", r)
       IN /\ Exchange(Request("GET", ZoneUrl(local.zone["id"])), r, out.msgs)
          /\ IF out.ret.kind = "raised"
             THEN Ends(out.ret) /\ UNCHANGED sleeps
             ELSE Continue(pc) /\ sleeps' = sleeps + 1
    /\ UNCHANGED <<local, zone>>

\* What the tenant can answer to GET /users/{id}.
UserGetResponses ==
    {TransportError,
     HttpResponse(200, UserObject, NoLink),
     HttpResponse(200, NotJson, NoLink),
     HttpResponse(404, ErrorEnvelope("E1", "not found"), NoLink),
     HttpResponse(404, NotJson, NoLink)}

GroupObject == [k \in {"id", "profile"} |-> IF k = "id" THEN "g1" ELSE "Everyone"]

\* What the tenant can answer to GET /users/{id}/groups.
GroupsGetResponses ==
    {TransportError,
     HttpResponse(200, JsonArray(<<GroupObject>>), NoLink),
     HttpResponse(200, JsonArray(<<>>), NoLink),
     HttpResponse(200, JsonArray(<<[k \in {"id"} |-> "g1"]>>), NoLink),
     HttpResponse(200, NotJson, NoLink),
     HttpResponse(404, ErrorEnvelope("E1", "not found"), NoLink),
     HttpResponse(404, JsonArray(<<>>), NoLink)}

GroupsUrl(id) == Url("/users/{user_id}/groups", id, 0)

\* get_user: get_user_object(ctx, id); the flag it returns is not looked at.
UserObjectStep(r) ==
    /\ pc = "user_object"
    /\ LET id == OptionValue(MODULE_OPTIONS, "id").s
           out == FetchOutcome("get_user_object", r)
       IN /\ Exchange(Request("GET", FetchUrl("get_user_object", id)), r, out.msgs)
          /\ IF out.ret.kind = "raised"
             THEN Ends(out.ret)
             ELSE pc' = "user_groups" /\ ret' = ret
    /\ UNCHANGED <<zone, local, sleeps>>

\* get_user_groups from its first line to its return.
get_user_groups(r) ==
    LET attempt == <<Message("INFO", "attempt_groups")>>
    IN IF r.exc
       THEN Outcome(Raised("AttributeError"), attempt \o <<UrlOrTokenError>>)
       ELSE IF ~Ok(r)
       THEN IF ErrorBodyRaises(r) # ""
            THEN Outcome(Raised(ErrorBodyRaises(r)), attempt)
            ELSE Outcome(ReturnNone, attempt \o <<HttpError(r)>>)
       ELSE IF r.body.kind = "invalid" THEN Outcome(Raised("ValueError"), attempt)
       ELSE IF r.body.items = <<>> /\ DOMAIN r.body.fields = {}
       THEN Outcome(ReturnNone, attempt)
       ELSE IF r.body.kind = "object"
       THEN Outcome(Raised("AttributeError"),
                    attempt \o <<Message("ECHO", "group_memberships")>>)
       ELSE IF r.body.kind = "array"
               /\ \E i \in DOMAIN r.body.items : "profile" \notin DOMAIN r.body.items[i]
       THEN Outcome(Raised("KeyError"), attempt \o <<Message("ECHO", "group_memberships")>>)
       ELSE Outcome(ReturnNone,
                    attempt \o <<Message("ECHO", "group_memberships"),
                                 Message("ECHO", "group_info")>>)

\* get_user: get_user_groups(ctx, id), the last line of execute.
UserGroupsStep(r) ==
    /\ pc = "user_groups"
    /\ LET id == OptionValue(MODULE_OPTIONS, "id").s
           out == get_user_groups(r)
       IN /\ Exchange(Request("GET", GroupsUrl(id)), r, out.msgs)
          /\ Ends(out.ret)
    /\ UNCHANGED <<zone, local, sleeps>>

ModNext ==
    \/ ModInfo
    \/ \E v \in Supplied : ModSet([k \in {"id"} |-> v])
    \/ ModReset
    \/ ModExecute
    \/ \E r \in ZoneGetResponses(OptionValue(MODULE_OPTIONS, "id").s) : ZoneLookup(r)
    \/ \E r \in ZonePutResponses(RenameTo(pc)), applied \in BOOLEAN : ZoneRename(r, applied)
    \/ \E r \in ZoneGetResponses(ZoneId) : ZoneConfirm(r)
    \/ \E r \in UserGetResponses : UserObjectStep(r)
    \/ \E r \in GroupsGetResponses : UserGroupsStep(r)

SpecModule == ModInit /\ [][ModNext]_vars

\* ------------------------------------------------- the state-change helpers

StateHelpers ==
    {"set_zone_state", "set_app_state", "set_policy_state", "set_policy_rule_state",
     "execute_lifecycle_operation"}

\* The operations a caller asks for.
Operations(h) ==
    IF h = "execute_lifecycle_operation" THEN {"ACTIVATE", "SUSPEND", "DELETE"}
    ELSE {"ACTIVATE", "DEACTIVATE"}

\* operation.lower()
Lower(op) ==
    CASE op = "ACTIVATE" -> "activate"
      [] op = "DEACTIVATE" -> "deactivate"
      [] op = "SUSPEND" -> "suspend"
      [] OTHER -> "delete"

\* The fetch helper each of them calls after its request.
RefetchWith(h) ==
    CASE h = "set_zone_state" -> "get_zone_object"
      [] h = "set_app_state" -> "get_app_object"
      [] h = "set_policy_state" -> "get_policy_object"
      [] h = "set_policy_rule_state" -> "get_policy_rule"
      [] OTHER -> "get_user_object"

\* The request that changes the state: a POST to the lifecycle URL of the
\* object, or a DELETE of the user.
ChangeRequest(h, op, id) ==
    IF h = "execute_lifecycle_operation" /\ op = "DELETE"
    THEN Request("DELETE", Url("/users/{user_id}", id, 0))
    ELSE Request("POST",
                 Url(CASE h = "set_zone_state" -> "/zones/{zone_id}/lifecycle/"
                       [] h = "set_app_state" -> "/apps/{app_id}/lifecycle/"
                       [] h = "set_policy_state" -> "/policies/{policy_id}/lifecycle/"
                       [] h = "set_policy_rule_state" ->
                            "/policies/{policy_id}/rules/{rule_id}/lifecycle/"
                       [] OTHER -> "/users/{user_id}/lifecycle/"
                     \o Lower(op), id, 0))

\* What the tenant can answer to it: the status, with an empty body, an
\* object or an error envelope; or nothing.
ChangeResponses ==
    {TransportError}
    \cup {HttpResponse(st, b, NoLink) :
            st \in {200, 304, 400},
            b \in {NotJson, JsonObject(EmptyDict), ErrorEnvelope("E2", "forbidden")}}

\* A state-change helper from its first line to the answer to its request:
\* what it reports, and whether it goes on to fetch the object.
ChangeOutcome(h, r) ==
    IF r.exc THEN Outcome(Raised("AttributeError"), <<UrlOrTokenError>>)
    ELSE IF Ok(r) THEN Outcome(NotReturned, <<Message("INFO", "state_changed")>>)
    ELSE IF ErrorBodyRaises(r) # "" THEN Outcome(Raised(ErrorBodyRaises(r)), <<>>)
    ELSE Outcome(NotReturned, <<HttpError(r)>>)

\* The helper is called; execute_lifecycle_operation asks whether to send an
\* email first.
StateCall(h, op, sendEmail) ==
    /\ pc \in {"idle", "done"}
    /\ helper' = h
    /\ cmd' = [name |-> h, kwargs |-> [operation |-> op, sendEmail |-> sendEmail],
               after |-> ""]
    /\ requests' = <<>>
    /\ responses' = <<>>
    /\ msgs' = <<>>
    /\ ret' = NotReturned
    /\ sleeps' = 0
    /\ pc' = "change"
    /\ UNCHANGED <<MODULE_OPTIONS, error, walkVarsButSleeps, modVars, sinkVars>>

\* The POST or DELETE, the time.sleep(1) the set_* helpers take inside the
\* try, and the message of the branch taken.
StateChange(r) ==
    /\ pc = "change"
    /\ LET out == ChangeOutcome(helper, r)
       IN /\ requests' = <<ChangeRequest(helper, cmd.kwargs.operation, <<"a">>)>>
          /\ responses' = <<r>>
          /\ msgs' = out.msgs
          /\ sleeps' = IF ~r.exc /\ helper # "execute_lifecycle_operation" THEN 1 ELSE 0
          /\ IF out.ret.kind = "raised"
             THEN ret' = out.ret /\ pc' = "done"
             ELSE ret' = ret /\ pc' = "refetch"
    /\ UNCHANGED <<optVars, helper, walkVarsButSleeps, modVars, sinkVars>>

\* The call of the fetch helper that ends both branches, and the return.
StateRefetch(r) ==
    /\ pc = "refetch"
    /\ LET out == FetchOutcome(RefetchWith(helper), r)
       IN /\ requests' =
                Append(requests, Request("GET", FetchUrl(RefetchWith(helper), <<"a">>)))
          /\ responses' = Append(responses, r)
          /\ msgs' = msgs \o out.msgs
          /\ ret' = IF out.ret.kind = "raised" THEN out.ret ELSE ReturnNone
    /\ pc' = "done"
    /\ UNCHANGED <<optVars, helper, walkVars, modVars, sinkVars>>

StateNext ==
    \/ \E h \in StateHelpers :
          \E op \in Operations(h), sendEmail \in BOOLEAN :
             (sendEmail => h = "execute_lifecycle_operation") /\ StateCall(h, op, sendEmail)
    \/ \E r \in ChangeResponses : StateChange(r)
    \/ \E r \in FetchResponses : StateRefetch(r)

SpecState == FetchInit /\ [][StateNext]_vars

\* --------------------------------------------------------------------- whoami

\* list_assigned_roles returns the pair (roles, error).
ReturnRoles(roles, flag) ==
    [NotReturned EXCEPT !.kind = "roles", !.items = roles, !.flag = flag]

RoleObject == [k \in {"id", "label"} |-> IF k = "id" THEN "r1" ELSE "Super Admin"]

RolesUrl(id) == Url("/users/{unique_id}/roles", id, 0)

\* What the tenant can answer to GET /users/{id}/roles.
RolesGetResponses ==
    {TransportError,
     HttpResponse(200, JsonArray(<<RoleObject>>), NoLink),
     HttpResponse(200, JsonArray(<<>>), NoLink),
     HttpResponse(200, NotJson, NoLink),
     HttpResponse(400, ErrorEnvelope("E2", "forbidden"), NoLink),
     HttpResponse(400, NotJson, NoLink)}

\* list_assigned_roles(ctx, unique_id, object_type="user") from its first
\* line to its return.
list_assigned_roles(r) ==
    LET attempt == <<Message("INFO", "attempt_roles")>>
    IN IF r.exc
       THEN Outcome(Raised("AttributeError"), attempt \o <<UrlOrTokenError>>)
       ELSE IF ~Ok(r)
       THEN IF ErrorBodyRaises(r) # ""
            THEN Outcome(Raised(ErrorBodyRaises(r)), attempt)
            ELSE Outcome(ReturnRoles(<<>>, "True"),
                         attempt \o <<HttpError(r), Message("NOTE", "super_admin")>>)
       ELSE IF r.body.kind = "invalid" THEN Outcome(Raised("ValueError"), attempt)
       ELSE IF r.body.kind = "object" /\ DOMAIN r.body.fields # {}
       THEN Outcome(Raised("AttributeError"), attempt \o <<Message("ECHO", "roles")>>)
       ELSE Outcome(ReturnRoles(r.body.items, "False"),
                    attempt \o <<Message("ECHO", "roles")>>)

\* user = get_current_user(ctx), as the answer to the first GET gives it.
CurrentUser == FetchOutcome("get_current_user", responses[1]).ret

\* whoami starts: the attempt message.
WhoamiCall ==
    /\ pc \in {"idle", "done"}
    /\ helper' = "whoami"
    /\ cmd' = [name |-> "whoami", kwargs |-> NoKwargs, after |-> ""]
    /\ requests' = <<>>
    /\ responses' = <<>>
    /\ msgs' = <<Message("INFO", "attempt")>>
    /\ ret' = NotReturned
    /\ pc' = "current_user"
    /\ UNCHANGED <<MODULE_OPTIONS, error, walkVars, modVars, sinkVars>>

\* One GET of whoami and what the helper that made it reported.
WhoamiExchange(req, r, reported) ==
    /\ requests' = Append(requests, req)
    /\ responses' = Append(responses, r)
    /\ msgs' = msgs \o reported
    /\ UNCHANGED <<optVars, helper, walkVars, modVars, sinkVars>>

\* user = get_current_user(ctx); without a user, the two branches that
\* report what cannot be listed.
WhoamiUser(r) ==
    /\ pc = "current_user"
    /\ LET out == FetchOutcome("get_current_user", r)
       IN IF out.ret.kind = "raised"
          THEN /\ WhoamiExchange(Request("GET", FetchUrl("get_current_user", <<>>)), r,
                                 out.msgs)
               /\ ret' = out.ret /\ pc' = "done"
          ELSE IF TruthyObject(out.ret)
          THEN /\ WhoamiExchange(Request("GET", FetchUrl("get_current_user", <<>>)), r,
                                 out.msgs)
               /\ ret' = ret /\ pc' = "roles"
          ELSE /\ WhoamiExchange(Request("GET", FetchUrl("get_current_user", <<>>)), r,
                                 out.msgs \o <<Message("ERROR", "unable_to_list_roles"),
                                               Message("ERROR", "unable_to_list_groups")>>)
               /\ ret' = ReturnNone /\ pc' = "done"

\* list_assigned_roles(ctx, user.get("id"), object_type="user"); what it
\* returns is not looked at.
WhoamiRoles(r) ==
    /\ pc = "roles"
    /\ LET out == list_assigned_roles(r)
       IN /\ WhoamiExchange(Request("GET", RolesUrl(Get(CurrentUser.body.fields, "id"))), r,
                            out.msgs)
          /\ IF out.ret.kind = "raised"
             THEN ret' = out.ret /\ pc' = "done"
             ELSE ret' = ret /\ pc' = "groups"

\* get_user_groups(ctx, user.get("id")), the last call of whoami.
WhoamiGroups(r) ==
    /\ pc = "groups"
    /\ LET out == get_user_groups(r)
       IN /\ WhoamiExchange(Request("GET", GroupsUrl(Get(CurrentUser.body.fields, "id"))), r,
                            out.msgs)
          /\ ret' = out.ret
    /\ pc' = "done"

WhoamiNext ==
    \/ WhoamiCall
    \/ \E r \in FetchResponses : WhoamiUser(r)
    \/ \E r \in RolesGetResponses : WhoamiRoles(r)
    \/ \E r \in GroupsGetResponses : WhoamiGroups(r)

SpecWhoami == FetchInit /\ [][WhoamiNext]_vars

\* --------------------------------------------------- helpers and their sink

\* The helpers called one at a time with a sink that may fail: the fetch
\* helpers, and rename_zone up to the answer to its PUT.
SinkHelpers == FetchHelpers \cup {"rename_zone"}

CallOutcome(h, r) == IF h = "rename_zone" THEN RenameOutcome(r) ELSE FetchOutcome(h, r)

CallRequest(h) ==
    IF h = "rename_zone"
    THEN Put(ZoneUrl(ZoneId), RenamePayload(InitialZone, "Zone A TEMP_STRING"))
    ELSE Request("GET", FetchUrl(h, <<"a">>))

CallResponses(h) ==
    IF h = "rename_zone" THEN ZonePutResponses("Zone A TEMP_STRING") ELSE FetchResponses

\* The messages a helper reports before it calls the session.
MsgsBeforeRequest(h) == IF h = "rename_zone" THEN 1 ELSE Len(AttemptMsgs(h))

\* module=__name__
ModuleOf(h) ==
    IF h = "rename_zone" THEN "dorothy.modules.defense_evasion.modify_zone"
    ELSE "dorothy.core"

\* The event=... argument: the caught exception in the except branch of the
\* session call, the message elsewhere.
EventOf(m) ==
    [kind |-> IF m.what = "url_or_api_token" THEN "exception" ELSE "str", text |-> m.what]

\* The index_event calls of a helper, one for each message it logs, from
\* message i on: the es.index calls made, the warnings shown, and the message
\* at which an exception left index_event (0 when none did).
RECURSIVE Telemetry(_, _, _, _, _)
Telemetry(sink, module, reported, fails, i) ==
    IF i > Len(reported) THEN [calls |-> <<>>, warned |-> 0, stopped |-> 0]
    ELSE IF reported[i].level \notin EventTypes
    THEN Telemetry(sink, module, reported, fails, i + 1)
    ELSE LET one == index_event(sink, i, module, reported[i].level, EventOf(reported[i]),
                                i \in fails)
             rest == Telemetry(sink, module, reported, fails, i + 1)
         IN IF one.raised # ""
            THEN [calls |-> one.calls, warned |-> one.warned, stopped |-> i]
            ELSE [calls |-> one.calls \o rest.calls,
                  warned |-> one.warned + rest.warned,
                  stopped |-> rest.stopped]

\* One call of a helper whose es.index calls raise at the messages in fails.
IndexedCall(h, r, fails) ==
    /\ pc \in {"idle", "done"}
    /\ helper' = h
    /\ cmd' = [name |-> h, kwargs |-> NoKwargs, after |-> ""]
    /\ LET out == CallOutcome(h, r)
           run == Telemetry(es, ModuleOf(h), out.msgs, fails, 1)
           asked == run.stopped = 0 \/ run.stopped > MsgsBeforeRequest(h)
       IN /\ indexed' = run.calls
          /\ warned' = run.warned
          /\ requests' = IF asked THEN <<CallRequest(h)>> ELSE <<>>
          /\ responses' = IF asked THEN <<r>> ELSE <<>>
          /\ msgs' = IF run.stopped = 0 THEN out.msgs
                     ELSE SubSeq(out.msgs, 1, run.stopped - 1)
          /\ ret' = IF run.stopped = 0 THEN out.ret ELSE Raised("Exception")
    /\ pc' = "done"
    /\ UNCHANGED <<MODULE_OPTIONS, error, walkVars, modVars, es>>

SinkNext ==
    \/ \E timestamp \in Timestamps, module \in EventModules, event_type \in EventTypes,
          event \in Events, fails \in BOOLEAN :
            IndexEvent(timestamp, module, event_type, event, fails)
    \/ \E h \in SinkHelpers :
          \E r \in CallResponses(h) :
             \E fails \in SUBSET (DOMAIN CallOutcome(h, r).msgs) : IndexedCall(h, r, fails)

SpecSink == SinkInit /\ [][SinkNext]_vars

\* ------------------------------------------------- claims: the option store

\* Option i of the store is required and has no (truthy) value.
MissingAt(store, i) == store[i].required /\ ~Truthy(store[i].value)

HasMissing(store) == \E i \in DOMAIN store : MissingAt(store, i)

FirstMissing(store) ==
    store[CHOOSE i \in DOMAIN store :
            MissingAt(store, i) /\ \A j \in 1..(i - 1) : ~MissingAt(store, j)].name

Fault == error.error = "True"

\* C1: check_module_options returns a Fault if and only if some required
\* option of the store is unset or empty, at whatever position, and its
\* message names the first such option in store order.
C1_CheckFaultIffMissing ==
    cmd.name = "check" =>
        /\ Fault <=> HasMissing(MODULE_OPTIONS)
        /\ Fault => error.named = FirstMissing(MODULE_OPTIONS)

\* C2: on a store with a required option at any position, check after reset
\* returns a Fault that names a required option.
C2_CheckAfterResetFaults ==
    (/\ cmd.name = "check"
     /\ cmd.after = "reset"
     /\ \E i \in DOMAIN MODULE_OPTIONS : MODULE_OPTIONS[i].required) =>
        /\ Fault
        /\ \E i \in DOMAIN MODULE_OPTIONS :
              MODULE_OPTIONS[i].required /\ error.named = MODULE_OPTIONS[i].name

\* A check that follows a set whose input satisfies Accepts(k, v) for every
\* required option k.
CheckAfterSetWith(Accepts(_, _)) ==
    /\ cmd.name = "check"
    /\ cmd.after = "set"
    /\ \A i \in DOMAIN MODULE_OPTIONS :
          MODULE_OPTIONS[i].required =>
              Accepts(MODULE_OPTIONS[i].name, cmd.kwargs[MODULE_OPTIONS[i].name])

NonEmpty(k, v) == Truthy(v)

\* Non-empty and, unless the option is group_ids, not only whitespace.
NonBlank(k, v) ==
    IF k = "group_ids" THEN Truthy(v) ELSE v.kind = "str" /\ strip(v.s) # <<>>

\* C3 as stated: after a set that supplies a non-empty value (whitespace
\* only included) for every required option, check returns no Fault.
C3_Original == CheckAfterSetWith(NonEmpty) => ~Fault

\* C3 as amended: after a set that supplies, for every required option, a
\* non-empty value that is not whitespace only (for group_ids any non-empty
\* value, commas only or whitespace only included), check returns no Fault.
C3_CheckAfterSetPasses == CheckAfterSetWith(NonBlank) => ~Fault

\* A required group_ids was set to commas only, a required id to a plain
\* value, and the check that followed passed.
C3_Witness ==
    /\ CheckAfterSetWith(NonBlank)
    /\ \E i \in DOMAIN MODULE_OPTIONS :
          /\ MODULE_OPTIONS[i].required
          /\ MODULE_OPTIONS[i].name = "group_ids"
          /\ cmd.kwargs["group_ids"] = Str(<<",">>)
    /\ \E i \in DOMAIN MODULE_OPTIONS :
          MODULE_OPTIONS[i].required /\ MODULE_OPTIONS[i].name = "id"
    /\ error.error = "False"

\* C4: set leaves an option untouched when its supplied value is None or ""
\* (value, required flag and help text), keeps every option's name, flag and
\* help, and never turns a set value into an empty one.
C4_SetNeverClears ==
    [][cmd'.name = "set" =>
        /\ DOMAIN MODULE_OPTIONS' = DOMAIN MODULE_OPTIONS
        /\ \A i \in DOMAIN MODULE_OPTIONS :
              /\ MODULE_OPTIONS'[i].name = MODULE_OPTIONS[i].name
              /\ MODULE_OPTIONS'[i].required = MODULE_OPTIONS[i].required
              /\ MODULE_OPTIONS'[i].help = MODULE_OPTIONS[i].help
              /\ cmd'.kwargs[MODULE_OPTIONS[i].name] \in {None, Str(<<>>)} =>
                    MODULE_OPTIONS'[i] = MODULE_OPTIONS[i]
              /\ Truthy(MODULE_OPTIONS[i].value) => Truthy(MODULE_OPTIONS'[i].value)
    ]_vars

\* C16: reset_module_options leaves every option of the store with the value
\* None, whatever it was, keeps the options, their order, their required
\* flags and their help texts, and a second reset changes nothing more.
C16_ResetClearsValuesOnly ==
    [][cmd'.name = "reset" =>
          /\ DOMAIN MODULE_OPTIONS' = DOMAIN MODULE_OPTIONS
          /\ \A i \in DOMAIN MODULE_OPTIONS :
                /\ MODULE_OPTIONS'[i].value = None
                /\ MODULE_OPTIONS'[i].name = MODULE_OPTIONS[i].name
                /\ MODULE_OPTIONS'[i].required = MODULE_OPTIONS[i].required
                /\ MODULE_OPTIONS'[i].help = MODULE_OPTIONS[i].help
          /\ reset_module_options(MODULE_OPTIONS') = MODULE_OPTIONS']_vars

\* A store of two options, one of them not required, has just been reset.
C16_Witness ==
    /\ cmd.name = "reset"
    /\ Len(MODULE_OPTIONS) = 2
    /\ \E i \in DOMAIN MODULE_OPTIONS : ~MODULE_OPTIONS[i].required
    /\ \A i \in DOMAIN MODULE_OPTIONS : MODULE_OPTIONS[i].value = None

\* The segments put back together with commas between them.
RECURSIVE Join(_)
Join(segs) ==
    IF Len(segs) = 1 THEN segs[1]
    ELSE segs[1] \o <<",">> \o Join(Tail(segs))

Commas(s) == Cardinality({i \in DOMAIN s : s[i] = ","})

\* l is the list of the comma-separated segments of s, in order.
SegmentsOf(l, s) ==
    /\ Len(l) = Commas(s) + 1
    /\ \A i \in DOMAIN l : Commas(l[i]) = 0
    /\ Join(l) = s

\* t is s without its leading and trailing whitespace.
Stripped(t, s) ==
    /\ t = <<>> \/ (~IsSpace(t[1]) /\ ~IsSpace(t[Len(t)]))
    /\ \E i \in 0..Len(s), j \in 0..Len(s) :
          /\ i + Len(t) + j = Len(s)
          /\ SubSeq(s, i + 1, i + Len(t)) = t
          /\ \A n \in (1..i) \cup ((Len(s) - j + 1)..Len(s)) : IsSpace(s[n])

\* A set command has just given the non-empty string v to the one option of
\* the store.
SetWith(k, v) ==
    /\ cmd.name = "set"
    /\ Len(MODULE_OPTIONS) = 1
    /\ MODULE_OPTIONS[1].name = k
    /\ DOMAIN cmd.kwargs = {k}
    /\ cmd.kwargs[k] = Str(v)
    /\ v # <<>>

\* C17 as stated: group_ids holds the list of the comma-separated segments
\* of the supplied string itself; any other option holds the supplied string
\* without its leading and trailing whitespace, never a list.
C17_Original ==
    \A k \in OptionNames, v \in ArgStrings :
        SetWith(k, v) =>
            IF k = "group_ids"
            THEN MODULE_OPTIONS[1].value.kind = "list"
                 /\ SegmentsOf(MODULE_OPTIONS[1].value.l, v)
            ELSE MODULE_OPTIONS[1].value.kind = "str"
                 /\ Stripped(MODULE_OPTIONS[1].value.s, v)

\* C17 as amended: group_ids holds the list of the comma-separated segments,
\* in order, of the supplied string without its leading and trailing
\* whitespace (one segment when it has no comma, the empty segment when it is
\* whitespace only); any other option holds the supplied string without its
\* leading and trailing whitespace, never a list.
C17_SetValueShape ==
    \A k \in OptionNames, v \in ArgStrings :
        SetWith(k, v) =>
            IF k = "group_ids"
            THEN /\ MODULE_OPTIONS[1].value.kind = "list"
                 /\ \E t \in ArgStrings :
                       Stripped(t, v) /\ SegmentsOf(MODULE_OPTIONS[1].value.l, t)
            ELSE MODULE_OPTIONS[1].value.kind = "str"
                 /\ Stripped(MODULE_OPTIONS[1].value.s, v)

\* group_ids was given " a," and holds the segments "a" and "".
C17_Witness ==
    /\ SetWith("group_ids", <<" ", "a", ",">>)
    /\ MODULE_OPTIONS[1].value = List(<< <<"a">>, <<>> >>)

\* --------------------------------------------------- claims: fetch helpers

Is2xx(r) == r.status >= 200 /\ r.status <= 299

\* The body is an object the helper's success branch can print and return.
Usable(h, b) ==
    /\ b.kind = "object"
    /\ h \in UserHelpers => "profile" \in DOMAIN b.fields
    /\ h = "get_policy_object" => "name" \in DOMAIN b.fields

\* The call handed its caller the fetched object (get_user_object: error = False).
YieldsObject == ret.kind = "object" \/ ret = ReturnFlag("False")

Reported(what) == \E i \in DOMAIN msgs : msgs[i].what = what

FetchDone == pc = "done" /\ helper \in FetchHelpers /\ ~responses[1].exc

\* C9: a fetch helper takes the success path, returning the parsed body,
\* exactly when the status is in 200..299; on any other status, 3xx
\* included, it yields no object and reports no success.
C9_SuccessIff2xx ==
    FetchDone =>
        /\ (Is2xx(responses[1]) /\ Usable(helper, responses[1].body)) =>
              /\ YieldsObject
              /\ ret.kind = "object" => ret.body = responses[1].body
        /\ ~Is2xx(responses[1]) => (~YieldsObject /\ ~Reported("retrieved"))

\* C10: on an error status a helper reports exactly one error, which carries
\* the status code, the reason phrase and the errorCode and errorSummary of
\* the body (None where the body has no such key), returns None or
\* error = True, and does not raise whatever the body is.
C10_ErrorReportedOnce ==
    (FetchDone /\ responses[1].status >= 400) =>
        /\ ret.kind # "raised"
        /\ ret \in {ReturnNone, ReturnFlag("True")}
        /\ Cardinality({i \in DOMAIN msgs : msgs[i].level = "ERROR"}) = 1
        /\ \E i \in DOMAIN msgs :
              /\ msgs[i].level = "ERROR"
              /\ msgs[i].status = responses[1].status
              /\ msgs[i].reason = responses[1].reason
              /\ msgs[i].errorCode = Get(responses[1].body.fields, "errorCode")
              /\ msgs[i].errorSummary = Get(responses[1].body.fields, "errorSummary")

\* The call failed: the session call raised, or the status is an error.
FailedCall == pc = "done" /\ helper \in FetchHelpers
              /\ (responses[1].exc \/ responses[1].status >= 400)

\* C11: no helper raises to its caller: on every failure path, a transport
\* exception of the session call included, it returns None or error = True.
C11_NeverRaises ==
    FailedCall => (ret.kind # "raised" /\ ret \in {ReturnNone, ReturnFlag("True")})

\* ------------------------------------------------ claims: pagination walker

RECURSIVE Concat(_)
Concat(rs) == IF rs = <<>> THEN <<>> ELSE Head(rs).body.items \o Concat(Tail(rs))

\* The response is a page of items served with a success status.
PageServed(r) == ~r.exc /\ Is2xx(r) /\ r.body.kind = "array"

WalkDone == pc = "done" /\ helper \in Walkers /\ responses # <<>>

Front(rs) == SubSeq(rs, 1, Len(rs) - 1)

Last(rs) == rs[Len(rs)]

\* C6: when every page of a walk is served with a success status, the
\* walker returns exactly the concatenation of the pages' items, in page
\* order and, within a page, in server order.
C6_WalkReturnsConcatenation ==
    (WalkDone /\ \A i \in DOMAIN responses : PageServed(responses[i])) =>
        /\ ret = ReturnList(Concat(responses))
        /\ Len(ret.items) = Len(Concat(responses))

\* Three pages were walked, the cursors out of numeric order, and five items
\* came back.
C6_Witness ==
    /\ WalkDone
    /\ \A i \in DOMAIN responses : PageServed(responses[i])
    /\ Len(responses) = 3
    /\ responses[1].next.after = 2
    /\ Len(responses[1].body.items) = 2
    /\ Len(responses[2].body.items) = 1
    /\ Len(ret.items) = 5

\* Page k answered an error status after pages 1..k-1 were served.
FailedAtLastPage ==
    /\ WalkDone
    /\ ~Last(responses).exc
    /\ Last(responses).status >= 400
    /\ \A i \in DOMAIN Front(responses) : PageServed(responses[i])

EndsWalk(r) == r.exc \/ ~Ok(r) \/ r.body.kind # "array" \/ r.next = NoLink

Count(what) == Cardinality({i \in DOMAIN msgs : msgs[i].what = what})

\* C12: the URL/token message is reported exactly when a session call
\* raised, and once; the call that raised is the last request of the
\* operation, which ends there; and that call reports neither an HTTP error
\* (status, reason, errorCode, errorSummary) nor a success.
C12_TransportFaultDistinct ==
    helper \in FetchHelpers \cup Walkers =>
        /\ Reported("url_or_api_token") <=> \E i \in DOMAIN responses : responses[i].exc
        /\ \A i \in DOMAIN responses :
              responses[i].exc =>
                 /\ i = Len(responses)
                 /\ Len(requests) = i
                 /\ pc = "done"
                 /\ Count("url_or_api_token") = 1
                 /\ ~Reported("http_error")
                 /\ Count("retrieved") = i - 1
                 /\ ~YieldsObject /\ ret.kind # "list"

\* The third page of a walk got no answer after two pages were served.
C12_Witness ==
    /\ helper \in Walkers
    /\ Len(responses) = 3
    /\ responses[3].exc
    /\ Len(harvested) >= 2
    /\ pc = "done"
    /\ Reported("url_or_api_token")

\* -------------------------------------------------- claims: module commands

\* C5: in modify_zone and get_user, an execute run while a required option
\* is unset or empty issues no HTTP request and ends at once; every request an
\* execute issues comes after a check that found no Fault, on a store whose
\* required options are all non-empty, and carries the id that was set.
C5_NoRequestWithoutOptions ==
    /\ (cmd.name = "execute" /\ HasMissing(MODULE_OPTIONS)) =>
          (Fault /\ requests = <<>> /\ pc = "idle")
    /\ (requests # <<>> \/ pc # "idle") =>
          /\ cmd.name = "execute"
          /\ error.error = "False"
          /\ ~HasMissing(MODULE_OPTIONS)
          /\ \A i \in DOMAIN requests :
                /\ requests[i].url.id # <<>>
                /\ requests[i].url.id = OptionValue(MODULE_OPTIONS, "id").s

\* execute ran on an id that a set of blanks had emptied, after an earlier
\* execute: it faulted and sent nothing.
C5_Witness ==
    /\ helper \in Modules
    /\ cmd.name = "execute"
    /\ cmd.after = "set"
    /\ executes = 2
    /\ OptionValue(MODULE_OPTIONS, "id") = Str(<<>>)
    /\ Fault
    /\ requests = <<>>
    /\ Reported("required_value_not_set")

\* C20: execute, on every path it takes, and info leave the option store as
\* it was: every option keeps its value, its required flag and its help text,
\* so execute can be run again with the same options.
C20_ExecuteAndInfoKeepOptions ==
    [][(cmd'.name \in {"execute", "info"} \/ pc # "idle") =>
          /\ DOMAIN MODULE_OPTIONS' = DOMAIN MODULE_OPTIONS
          /\ \A i \in DOMAIN MODULE_OPTIONS :
                /\ MODULE_OPTIONS'[i].name = MODULE_OPTIONS[i].name
                /\ MODULE_OPTIONS'[i].value = MODULE_OPTIONS[i].value
                /\ MODULE_OPTIONS'[i].required = MODULE_OPTIONS[i].required
                /\ MODULE_OPTIONS'[i].help = MODULE_OPTIONS[i].help]_vars

\* info was run between two executes, the second of which renamed the zone
\* and reverted it with the id set before the first.
C20_Witness ==
    /\ helper = "modify_zone"
    /\ cmd.name = "execute"
    /\ cmd.after = "info"
    /\ executes = 2
    /\ pc = "idle"
    /\ Len(requests) = 5
    /\ OptionValue(MODULE_OPTIONS, "id") = Str(<<"a">>)

\* ------------------------------------------------------ claims: modify_zone

\* The request was answered with a 2xx status and a zone.
Succeeded(r) ==
    ~r.exc /\ Is2xx(r) /\ r.body.kind = "object" /\ "name" \in DOMAIN r.body.fields

\* execute of modify_zone is running or has run, and has issued a request.
ZoneExecute == helper = "modify_zone" /\ cmd.name = "execute" /\ requests # <<>>

Methods(reqs) == [i \in DOMAIN reqs |-> reqs[i].method]

\* C13: when the lookup and every later request of modify_zone's execute
\* succeed, the requests are GET zone, PUT name "<original> TEMP_STRING", GET
\* zone, PUT name "<original>", GET zone, in this order and no other, all to
\* the zone's URL, and the zone's name on the tenant after execute is its name
\* before execute.
C13_RenameAndRevert ==
    (ZoneExecute /\ \A i \in DOMAIN responses : Succeeded(responses[i])) =>
        LET before == responses[1].body.fields
            expected == <<"GET", "PUT", "GET", "PUT", "GET">>
        IN /\ Len(requests) <= 5
           /\ Methods(requests) = SubSeq(expected, 1, Len(requests))
           /\ \A i \in DOMAIN requests :
                 /\ requests[i].url = Url("/zones/{zone_id}", before["id"], 0)
                 /\ i = 2 => requests[i].json["name"] = before["name"] \o " TEMP_STRING"
                 /\ i = 4 => requests[i].json["name"] = before["name"]
                 /\ i \in {2, 4} => requests[i].json["type"] = before["type"]
           /\ pc = "idle" =>
                 /\ Len(requests) = 5
                 /\ ret = ReturnNone
                 /\ zone = before

\* A whole rename and revert went through on the zone named "Zone A".
C13_Witness ==
    /\ ZoneExecute
    /\ pc = "idle"
    /\ Len(requests) = 5
    /\ \A i \in DOMAIN responses : Succeeded(responses[i])
    /\ responses[3].body.fields["name"] = "Zone A TEMP_STRING"
    /\ zone["name"] = "Zone A"

\* The fields of a zone other than its id and its name.
ZoneSettings == {"type", "gateways", "proxies"}

\* C24: each PUT of modify_zone's execute carries the type, gateways and
\* proxies of the zone the lookup returned and a name, and nothing else: the
\* temporary name in the first PUT, the original name in the second; after
\* an execute whose requests all succeeded, the zone's type, gateways and
\* proxies on the tenant are those of before.
C24_PayloadKeepsZone ==
    ZoneExecute =>
        LET before == responses[1].body.fields
        IN /\ \A i \in DOMAIN requests :
                 requests[i].method = "PUT" =>
                    /\ DOMAIN requests[i].json = ZoneSettings \cup {"name"}
                    /\ \A k \in ZoneSettings : requests[i].json[k] = Get(before, k)
                    /\ requests[i].json["name"] =
                          IF i = 2 THEN before["name"] \o " TEMP_STRING" ELSE before["name"]
           /\ (pc = "idle" /\ Len(requests) = 5
                 /\ \A i \in DOMAIN responses : Succeeded(responses[i]))
                 => \A k \in ZoneSettings : zone[k] = before[k]

\* Both PUTs went through, each with the gateways and proxies of the zone
\* that was looked up, and the tenant holds them.
C24_Witness ==
    /\ ZoneExecute
    /\ pc = "idle"
    /\ Methods(requests) = <<"GET", "PUT", "GET", "PUT", "GET">>
    /\ \A i \in DOMAIN responses : Succeeded(responses[i])
    /\ requests[2].json["gateways"] = "gw" /\ requests[4].json["proxies"] = "px"
    /\ requests[2].json["name"] # requests[4].json["name"]
    /\ zone["gateways"] = "gw" /\ zone["proxies"] = "px"

\* execute of modify_zone has returned, not raised.
ReturnedNormally == ZoneExecute /\ pc = "idle" /\ ret = ReturnNone

\* The first PUT of the run, and the PUTs after it, by how they were answered.
FirstPutSucceeded ==
    Len(requests) >= 2 /\ requests[2].method = "PUT" /\ Succeeded(responses[2])

FirstPutHttpError ==
    Len(requests) >= 2 /\ requests[2].method = "PUT"
    /\ ~responses[2].exc /\ responses[2].status >= 400

RevertPut(i) == i \in DOMAIN requests /\ i > 2 /\ requests[i].method = "PUT"

\* C26: whenever execute of modify_zone returns normally, the zone's name on
\* the tenant is the original name or "<original> TEMP_STRING"; it is the
\* temporary name only if the first PUT succeeded and the revert PUT failed;
\* if the first PUT failed with an HTTP error and the revert PUT succeeded,
\* it is the original name.  An execute that returns without a rename leaves
\* the name as it was.
C26_NameAfterExecute ==
    /\ [](ReturnedNormally /\ Len(requests) >= 2 =>
            LET original == responses[1].body.fields["name"]
                temporary == original \o " TEMP_STRING"
            IN /\ zone["name"] \in {original, temporary}
               /\ zone["name"] = temporary =>
                     /\ FirstPutSucceeded
                     /\ \E i \in DOMAIN requests : RevertPut(i) /\ ~Succeeded(responses[i])
               /\ (FirstPutHttpError
                     /\ \E i \in DOMAIN requests : RevertPut(i) /\ Succeeded(responses[i]))
                     => zone["name"] = original)
    /\ [][(helper = "modify_zone" /\ pc = "zone_lookup" /\ pc' = "idle")
            => zone' = zone]_vars

\* The first PUT renamed the zone, the revert PUT was refused, and execute
\* returned: the tenant holds the temporary name.
C26_Witness ==
    /\ ReturnedNormally
    /\ FirstPutSucceeded
    /\ \E i \in DOMAIN requests :
          RevertPut(i) /\ ~responses[i].exc /\ responses[i].status = 400
    /\ zone["name"] = responses[1].body.fields["name"] \o " TEMP_STRING"

\* The lookup gave execute no zone: the session call raised, the status is an
\* error, or the body is not one get_zone_object can return.
LookupFailed(r) == r.exc \/ r.status >= 400 \/ r.body.kind # "object"

FirstRenameFailed ==
    /\ ZoneExecute
    /\ pc = "idle"
    /\ Len(requests) >= 2
    /\ requests[2].method = "PUT"
    /\ (responses[2].exc \/ responses[2].status >= 400)

\* C15: when the first rename of modify_zone's execute fails, by an error
\* status or by a transport exception, the second rename, a PUT carrying the
\* original name, is still attempted.
C15_SecondRenameAttempted ==
    FirstRenameFailed =>
        /\ Len(requests) >= 3
        /\ requests[3].method = "PUT"
        /\ requests[3].json["name"] = responses[1].body.fields["name"]

\* ---------------------------------------------------------- claims: the sink

\* C18: without a sink index_event does nothing: no es.index call, no
\* warning, no exception, nothing else changed; with a sink it makes exactly
\* one es.index call, carrying the timestamp, the module, the event type and
\* the message.
C18_IndexEventOneWrite ==
    helper = "index_event" =>
        /\ ret = ReturnNone
        /\ requests = <<>> /\ msgs = <<>>
        /\ MODULE_OPTIONS = ModuleOptionsAtLoad /\ zone = InitialZone
        /\ es = "None" => (indexed = <<>> /\ warned = 0)
        /\ es # "None" =>
              /\ Len(indexed) = 1
              /\ indexed[1].index = "dorothy"
              /\ indexed[1].body =
                    [timestamp |-> cmd.kwargs.timestamp, module |-> cmd.kwargs.module,
                     event_type |-> cmd.kwargs.event_type, event |-> cmd.kwargs.event.text]

\* index_event was handed a caught exception while no sink is configured.
C18_Witness ==
    /\ helper = "index_event"
    /\ es = "None"
    /\ cmd.kwargs.event.kind = "exception"
    /\ cmd.kwargs.event_type = "ERROR"
    /\ indexed = <<>>
    /\ ret = ReturnNone

\* The messages of the call that went through index_event.
Logged(reported) == {i \in DOMAIN reported : reported[i].level \in EventTypes}

\* C19: whatever the sink does (absent, accepting, raising at any of the
\* index_event calls), a helper issues the same request, returns the same
\* value and reports the same messages as the response alone determines, and
\* leaves the option store alone; only the warnings differ.
C19_SinkNeverAlters ==
    (helper \in SinkHelpers /\ pc = "done") =>
        /\ requests = <<CallRequest(helper)>>
        /\ Len(responses) = 1
        /\ ret = CallOutcome(helper, responses[1]).ret
        /\ msgs = CallOutcome(helper, responses[1]).msgs
        /\ MODULE_OPTIONS = ModuleOptionsAtLoad
        /\ Len(indexed) = IF es = "None" THEN 0 ELSE Cardinality(Logged(msgs))
        /\ warned <= Len(indexed)

\* rename_zone was answered an error, both of its index_event calls failed,
\* and it still reported the error and returned.
C19_Witness ==
    /\ helper = "rename_zone"
    /\ es = "Elasticsearch"
    /\ Len(indexed) = 2
    /\ warned = 2
    /\ responses[1].status = 400
    /\ Reported("http_error")
    /\ ret = ReturnNone

\* ------------------------------------------------------ claims: the harvest

\* The pages of the running walk that were fetched and harvested.
PagesHarvested ==
    {i \in DOMAIN responses :
        ~responses[i].exc /\ Ok(responses[i]) /\ responses[i].body.kind # "invalid"}

\* C27: a walker shows its print and save prompts only after its last page
\* was fetched successfully with a harvest that is not empty, and writes a
\* file only when, after that, the user confirmed saving; the file holds
\* every harvested item in page order; when a page is answered with a status
\* that is not a success (not 2xx) there is no prompt and no file, whatever
\* was harvested before.
C27_SaveOnlyAfterWholeWalk ==
    helper \in Walkers =>
        /\ (pc = "prompt" \/ saved.prompted) =>
              /\ responses # <<>>
              /\ \A i \in DOMAIN responses : PageServed(responses[i])
              /\ Last(responses).next = NoLink
              /\ harvested # <<>>
        /\ saved.printed => saved.prompted
        /\ saved.written =>
              /\ saved.prompted
              /\ saved.content = harvested
              /\ saved.content = Concat(responses)
        /\ ~saved.written => saved.content = <<>>
        /\ (\E i \in DOMAIN responses : ~responses[i].exc /\ ~Is2xx(responses[i]))
              => (pc # "prompt" /\ saved = NothingSaved)

\* ------------------------------------------------------- claims: the pauses

\* C25: a walker pauses for one second after every page it fetched and
\* harvested, the last page included, and at no other time: a walk of N
\* successful pages performs exactly N pauses, and a failed page none.
C25_PauseAfterEveryPage ==
    helper \in Walkers => sleeps = Cardinality(PagesHarvested)

\* A walk of two pages, then a page that failed: two pauses.
C25_Witness ==
    /\ helper \in Walkers
    /\ pc = "done"
    /\ Len(requests) = 3
    /\ PagesHarvested = {1, 2}
    /\ sleeps = 2

\* C25 as stated: pauses occur only between page fetches, so a walk of N
\* successful pages has performed N-1 pauses when it returns its list.
C25_Original ==
    (helper \in Walkers /\ ret.kind = "list") => sleeps = Len(requests) - 1

\* ------------------------------------------------------ claims: the requests

\* C21: every request of a helper, a walker's requests to the "next" URLs it
\* was given included, goes to a URL under the base URL with the
\* Authorization header of the API token and the timeout of 7 seconds; the
\* token is sent to no URL outside the base URL.
C21_RequestsUnderBaseUrl ==
    \A i \in DOMAIN requests :
        /\ requests[i].authorization = "SSWS api_token"
        /\ requests[i].timeout = 7
        /\ requests[i].url.base = "base_url"

\* ------------------------------------------------ claims: command sequences

AttemptEvents ==
    {i \in DOMAIN msgs : msgs[i].level \in EventTypes /\ msgs[i].what = "attempt"}

OutcomeEvents ==
    {i \in DOMAIN msgs :
        /\ msgs[i].level \in EventTypes
        /\ msgs[i].what \in {"retrieved", "http_error", "url_or_api_token"}}

\* C23: every HTTP call of a helper (get_user_object, get_current_user and
\* the list walkers included) is preceded by an attempt event and followed,
\* once it completed, by exactly one outcome event sent through index_event:
\* a call that has ended logged as many attempt events and as many outcome
\* events as it issued requests, an attempt event first.
C23_AttemptAndOutcomeLogged ==
    pc = "done" /\ requests # <<>> =>
        /\ Cardinality(AttemptEvents) = Len(requests)
        /\ Cardinality(OutcomeEvents) = Len(requests)
        /\ 1 \in AttemptEvents

\* ------------------------------------------ claims: the state-change helpers

\* C28: a state-change helper whose request was answered, with a success
\* status or not, has issued exactly one state-changing request and then
\* exactly one GET of the same object when it ends; the state-changing
\* request is never repeated.
C28_OneChangeThenOneRefetch ==
    /\ helper \in StateHelpers =>
          Cardinality({i \in DOMAIN requests : requests[i].method # "GET"}) <= 1
    /\ (helper \in StateHelpers /\ pc = "done" /\ ~responses[1].exc) =>
          /\ Methods(requests) \in {<<"POST", "GET">>, <<"DELETE", "GET">>}
          /\ requests[2].url = FetchUrl(RefetchWith(helper), requests[1].url.id)

\* ------------------------------------------------------------ claims: get_user

\* execute of get_user has ended after a profile GET that was answered.
UserExecuteEnded ==
    /\ helper = "get_user" /\ cmd.name = "execute"
    /\ pc = "idle" /\ requests # <<>>
    /\ ~responses[1].exc

\* C29: once check passes, execute of get_user issues the user-profile GET
\* and then the group-membership GET for the configured id, in that order,
\* the second whether the first was answered with a success status or not.
C29_ProfileThenGroups ==
    /\ (helper = "get_user" /\ requests # <<>>) =>
          /\ requests[1] = Request("GET", FetchUrl("get_user_object",
                                                   OptionValue(MODULE_OPTIONS, "id").s))
          /\ Len(requests) <= 2
    /\ UserExecuteEnded =>
          /\ Len(requests) = 2
          /\ requests[2] = Request("GET", GroupsUrl(OptionValue(MODULE_OPTIONS, "id").s))

\* -------------------------------------------------------------- claims: whoami

\* whoami has ended after a current-user GET that was answered.
WhoamiEnded == helper = "whoami" /\ pc = "done" /\ ~responses[1].exc

\* The current-user GET was answered with a success status and a user.
UserFetched ==
    /\ Is2xx(responses[1])
    /\ responses[1].body.kind = "object"
    /\ "profile" \in DOMAIN responses[1].body.fields

\* C30: when the current-user GET of whoami is answered with a status that
\* is not a success, no roles GET and no groups GET is issued and the two
\* errors (roles, then group memberships, cannot be listed) are reported;
\* when it succeeds, the roles GET and then the groups GET are issued for the
\* id of the user returned, the groups GET whether or not the roles GET
\* succeeded.
C30_WhoamiRequests ==
    /\ (WhoamiEnded /\ ~Is2xx(responses[1])) =>
          /\ Len(requests) = 1
          /\ Reported("unable_to_list_roles")
          /\ Reported("unable_to_list_groups")
    /\ (WhoamiEnded /\ UserFetched) =>
          LET id == Get(responses[1].body.fields, "id")
          IN /\ Len(requests) >= 2
             /\ requests[2] = Request("GET", RolesUrl(id))
             /\ ~responses[2].exc =>
                   /\ Len(requests) = 3
                   /\ requests[3] = Request("GET", GroupsUrl(id))

====
